---- MODULE Spec2Model ----
(***************************************************************************)
(* The editing session of frontend/src/App.js: the React state of App, the *)
(* two network calls it awaits (POST /upload-ocr, POST /edit-image) and    *)
(* the handlers that read and write that state.                            *)
(*                                                                         *)
(* Every handler runs to completion on the single JavaScript thread, so a  *)
(* handler is one action; an async handler is one action up to its await   *)
(* and one action per way the awaited call settles.  A handler sees the    *)
(* state of the latest render, except where an async handler reads a       *)
(* const of the render it was called in after its await: that value is     *)
(* carried with the pending call.                                          *)
(***************************************************************************)
EXTENDS Integers, Sequences, FiniteSets, Bags, TLC

(***************************************************************************)
(* Bounds of the model.                                                    *)
(***************************************************************************)
MaxEdits == 2      \* longest textEdits the model builds
MaxRenders == 2    \* most /edit-image calls awaited at once
MaxUploads == 2    \* most extraction results the server hands out
MaxDisplayed == 3  \* largest displayed width and height of the click mapping
MaxNatural == 4    \* largest natural width and height of the click mapping

(***************************************************************************)
(* Values.                                                                 *)
(***************************************************************************)
Null == [null |-> TRUE]               \* JavaScript null / undefined

\* A string the user types is a sequence of characters.
EmptyText == << >>
WhiteSpace == {" "}
TextInputs == { << >>, <<" ">>, <<" ", "H", "i">> }

\* Files the user has: name and MIME type (major, minor).  The file input
\* offers the image files (accept="image/*"); anything can be dropped.
Files ==
  { [name |-> "a.png", type |-> <<"image", "png">>],
    [name |-> "b.png", type |-> <<"image", "png">>],
    [name |-> "notes.txt", type |-> <<"text", "plain">>] }
PickableFiles == { f \in Files : f.type[1] = "image" }
DroppableFiles == Files

DefaultFontSize == 24
DefaultFontColor == "#000000"
SliderMin == 12
SliderMax == 72
\* e.target.value of the range input: a string of decimal digits
SliderValues == { <<7, 2>> }
\* e.target.value of the color input: "#rrggbb"
FontColorInputs == {"#ff0000"}

\* What the user can type into the extracted-text area.
TextAreaInputs == {""}

\* Clicks on the preview: the pointer position, the image element's
\* bounding rectangle origin, its displayed size and its natural size.
\* The click is at (50, 50) of a 300 x 400 element showing a 1000 x 1600
\* image: 50 * (1000 / 300) = 166.67 and 50 * (1600 / 400) = 200, neither
\* near a tie of Math.round, so the doubles of the code round the same way.
ClickEvents ==
  { [clientX |-> 60, clientY |-> 70, left |-> 10, top |-> 20,
     width |-> 300, height |-> 400,
     naturalWidth |-> 1000, naturalHeight |-> 1600] }

\* The clicks of the coordinate mapping.  ScenarioClick is the click at
\* (50, 50) of a 300 x 400 element showing a 1200 x 1600 image.  On the x
\* axis: every displayed width of 1..MaxDisplayed, every natural width of
\* 0..MaxNatural and every position of the pointer inside the element, its
\* borders included.  On the y axis: the clicks on the top and the bottom
\* border of the tallest element showing the tallest image.  The axis not
\* varied is that of ScenarioClick (the two are computed apart, lines
\* 86-92).  At these sizes x * (natural / displayed) is exact in doubles or
\* far from a tie, so Math.round gives MathRound.
ScenarioClick ==
  [clientX |-> 60, clientY |-> 70, left |-> 10, top |-> 20,
   width |-> 300, height |-> 400,
   naturalWidth |-> 1200, naturalHeight |-> 1600]
AxisClicks ==
  { c \in [local : 0..MaxDisplayed, displayed : 1..MaxDisplayed,
           natural : 0..MaxNatural] : c.local <= c.displayed }
BorderClicks ==
  { c \in AxisClicks : /\ c.displayed = MaxDisplayed
                       /\ c.natural = MaxNatural
                       /\ c.local \in {0, c.displayed} }
MapClickEvents ==
  {ScenarioClick}
    \cup { [ScenarioClick EXCEPT !.clientX = ScenarioClick.left + c.local,
                                 !.width = c.displayed,
                                 !.naturalWidth = c.natural] : c \in AxisClicks }
    \cup { [ScenarioClick EXCEPT !.clientY = ScenarioClick.top + c.local,
                                 !.height = c.displayed,
                                 !.naturalHeight = c.natural] : c \in BorderClicks }

NoAlert == "no alert"
NoDownload == "no download"
NoRequest == [none |-> TRUE]

VARIABLES
  selectedFile,    \* useState(null): the picked file
  extractedText,   \* useState(""): text shown in the text area
  isLoading,       \* useState(false): an extraction is awaited
  ocrResult,       \* useState(null): response.data of the last extraction
  imagePreview,    \* useState(null): object URL of the picked file
  textEdits,       \* useState([]): the annotations
  isEditMode,      \* useState(false)
  newText,         \* useState(""): the pending annotation text
  fontSize,        \* useState(24)
  fontColor,       \* useState("#000000")
  ocrPending,      \* bag of the /upload-ocr calls awaited: the file of each
  renderPending,   \* bag of the /edit-image calls awaited: the ocrResult
                   \* of the render downloadEditedImage was called in
  nextId,          \* the id the server gives the next extraction result
  editLog,         \* history: for each annotation of textEdits in the order
                   \* of its creation, the annotation and the ocrResult of
                   \* the session at that moment
  alertShown,      \* the alert() the last event showed
  downloaded,      \* the download name the last event saved under
  posted           \* the body the last event posted to /edit-image

react == << selectedFile, extractedText, isLoading, ocrResult, imagePreview,
            textEdits, isEditMode, newText, fontSize, fontColor >>

vars == << selectedFile, extractedText, isLoading, ocrResult, imagePreview,
           textEdits, isEditMode, newText, fontSize, fontColor, ocrPending,
           renderPending, nextId, editLog, alertShown, downloaded, posted >>

(***************************************************************************)
(* Pure helpers.                                                           *)
(***************************************************************************)
RECURSIVE TrimStart(_)
TrimStart(s) ==
  IF s = << >> THEN s
  ELSE IF Head(s) \in WhiteSpace THEN TrimStart(Tail(s)) ELSE s

RECURSIVE TrimEnd(_)
TrimEnd(s) ==
  IF s = << >> THEN s
  ELSE IF s[Len(s)] \in WhiteSpace THEN TrimEnd(SubSeq(s, 1, Len(s) - 1)) ELSE s

\* String.prototype.trim
Trim(s) == TrimEnd(TrimStart(s))

MathRoundUpwards(num, den) == num \div den + 1

\* Math.round of the non-negative rational num / den: floor(v + 0.5)
MathRound(num, den) == (2 * num + den) \div (2 * den)

\* file.type.startsWith('image/')
IsImageType(type) == type[1] = "image"

\* URL.createObjectURL(file)
ObjectURL(file) == [url |-> "blob:" \o file.name]

\* `edited_${filename}`
EditedName(filename) == "edited_" \o filename

\* parseInt of a string of decimal digits
RECURSIVE ParseInt(_)
ParseInt(digits) ==
  IF digits = << >> THEN 0
  ELSE 10 * ParseInt(SubSeq(digits, 1, Len(digits) - 1)) + digits[Len(digits)]

\* An awaited call is added to the calls outstanding, and leaves them when
\* it settles; calls settle in any order.
Await(pending, call) == pending (+) SetToBag({call})
Settle(pending, call) == pending (-) SetToBag({call})

\* What an event does besides setting React state.
Effects(alert, download, request) ==
  /\ alertShown' = alert
  /\ downloaded' = download
  /\ posted' = request

Init ==
  /\ selectedFile = Null
  /\ extractedText = ""
  /\ isLoading = FALSE
  /\ ocrResult = Null
  /\ imagePreview = Null
  /\ textEdits = << >>
  /\ isEditMode = FALSE
  /\ newText = EmptyText
  /\ fontSize = DefaultFontSize
  /\ fontColor = DefaultFontColor
  /\ ocrPending = EmptyBag
  /\ renderPending = EmptyBag
  /\ nextId = 1
  /\ editLog = << >>
  /\ alertShown = NoAlert
  /\ downloaded = NoDownload
  /\ posted = NoRequest

(***************************************************************************)
(* File selection.                                                         *)
(***************************************************************************)
LoadFileKeepsEditMode(file) ==
  /\ selectedFile' = file
  /\ imagePreview' = ObjectURL(file)
  /\ extractedText' = ""
  /\ ocrResult' = Null
  /\ textEdits' = << >>
  /\ editLog' = << >>
  /\ UNCHANGED << isLoading, isEditMode, newText, fontSize, fontColor,
                  ocrPending, renderPending, nextId >>

\* The six setters both handlers call when they accept a file.
LoadFile(file) ==
  /\ selectedFile' = file
  /\ imagePreview' = ObjectURL(file)
  /\ extractedText' = ""
  /\ ocrResult' = Null
  /\ textEdits' = << >>
  /\ isEditMode' = FALSE
  /\ editLog' = << >>
  /\ UNCHANGED << isLoading, newText, fontSize, fontColor, ocrPending,
                  renderPending, nextId >>

\* onChange of the file input; file = Null when the dialog gives no file.
handleFileSelect(file) ==
  /\ Effects(NoAlert, NoDownload, NoRequest)
  /\ IF file # Null
       THEN LoadFile(file)
       ELSE UNCHANGED << react, ocrPending, renderPending, nextId, editLog >>

\* onDrop of the upload area.
handleDrop(file) ==
  /\ Effects(NoAlert, NoDownload, NoRequest)
  /\ IF file # Null /\ IsImageType(file.type)
       THEN LoadFile(file)
       ELSE UNCHANGED << react, ocrPending, renderPending, nextId, editLog >>

(***************************************************************************)
(* Extraction: POST /upload-ocr.                                           *)
(***************************************************************************)
\* response.data of a successful extraction of `file`: the server's record
\* { id, filename, extracted_text, confidence }, a new id for every call.
OcrResponse(file, id) ==
  [id |-> id, filename |-> file.name,
   extracted_text |-> "text of " \o file.name, confidence |-> 90]

\* onClick of the extract button (disabled while isLoading), up to the await.
handleUploadAndOCR ==
  /\ ~isLoading
  /\ Effects(NoAlert, NoDownload, NoRequest)
  /\ IF selectedFile = Null
       THEN UNCHANGED << react, ocrPending >>
       ELSE /\ isLoading' = TRUE
            /\ ocrPending' = Await(ocrPending, [file |-> selectedFile])
            /\ UNCHANGED << selectedFile, extractedText, ocrResult,
                            imagePreview, textEdits, isEditMode, newText,
                            fontSize, fontColor >>
  /\ UNCHANGED << renderPending, nextId, editLog >>

\* What the try block does with the response, before `finally`.
StoreOcrResult(data) ==
  /\ ocrResult' = data
  /\ extractedText' = data.extracted_text
  /\ UNCHANGED << textEdits, editLog >>

\* An awaited extraction resolves: try block after the await, finally.
uploadOcrFulfilled(call) ==
  /\ BagIn(call, ocrPending)
  /\ Effects(NoAlert, NoDownload, NoRequest)
  /\ nextId <= MaxUploads
  /\ StoreOcrResult(OcrResponse(call.file, nextId))
  /\ nextId' = nextId + 1
  /\ isLoading' = FALSE
  /\ ocrPending' = Settle(ocrPending, call)
  /\ UNCHANGED << selectedFile, imagePreview, isEditMode, newText, fontSize,
                  fontColor, renderPending >>

uploadOcrRejectedKeepsLoading(call) ==
  /\ BagIn(call, ocrPending)
  /\ Effects("Failed to extract text from image. Please try again.",
             NoDownload, NoRequest)
  /\ ocrPending' = Settle(ocrPending, call)
  /\ UNCHANGED << selectedFile, extractedText, isLoading, ocrResult,
                  imagePreview, textEdits, isEditMode, newText, fontSize,
                  fontColor, renderPending, nextId, editLog >>

\* An awaited extraction rejects: catch, finally.
uploadOcrRejected(call) ==
  /\ BagIn(call, ocrPending)
  /\ Effects("Failed to extract text from image. Please try again.",
           NoDownload, NoRequest)
  /\ isLoading' = FALSE
  /\ ocrPending' = Settle(ocrPending, call)
  /\ UNCHANGED << selectedFile, extractedText, ocrResult, imagePreview,
                  textEdits, isEditMode, newText, fontSize, fontColor,
                  renderPending, nextId, editLog >>

\* onChange of the text area, rendered while extractedText is non-empty.
handleTextEdit(text) ==
  /\ extractedText # ""
  /\ Effects(NoAlert, NoDownload, NoRequest)
  /\ extractedText' = text
  /\ UNCHANGED << selectedFile, isLoading, ocrResult, imagePreview, textEdits,
                  isEditMode, newText, fontSize, fontColor, ocrPending,
                  renderPending, nextId, editLog >>

(***************************************************************************)
(* Annotations.                                                            *)
(***************************************************************************)
ClickRefusedWithoutTrim == ~isEditMode \/ newText = EmptyText

ClickRefusedOutsideEditModeOnly == ~isEditMode

\* The early return of handleImageClick.
ClickRefused == ~isEditMode \/ Trim(newText) = EmptyText

NewEditTrimmed(event) ==
  LET x == event.clientX - event.left
      y == event.clientY - event.top
  IN [text |-> Trim(newText),
      x |-> MathRound(x * event.naturalWidth, event.width),
      y |-> MathRound(y * event.naturalHeight, event.height),
      font_size |-> fontSize,
      font_color |-> fontColor]

\* The annotation a click creates.
NewEdit(event) ==
  LET x == event.clientX - event.left
      y == event.clientY - event.top
  IN [text |-> newText,
      x |-> MathRound(x * event.naturalWidth, event.width),
      y |-> MathRound(y * event.naturalHeight, event.height),
      font_size |-> fontSize,
      font_color |-> fontColor]

AddEditInFront(edits, newEdit) == <<newEdit>> \o edits

\* [...textEdits, newEdit]
AddEdit(edits, newEdit) == Append(edits, newEdit)

\* onClick of the preview image, rendered while imagePreview is set.
handleImageClick(event) ==
  /\ imagePreview # Null
  /\ event.width > 0 /\ event.height > 0
  /\ Effects(NoAlert, NoDownload, NoRequest)
  /\ IF ClickRefused
       THEN UNCHANGED << textEdits, newText, editLog >>
       ELSE /\ Len(textEdits) < MaxEdits
            /\ textEdits' = AddEdit(textEdits, NewEdit(event))
            /\ newText' = EmptyText
            /\ editLog' = Append(editLog, [edit |-> NewEdit(event),
                                           result |-> ocrResult])
  /\ UNCHANGED << selectedFile, extractedText, isLoading, ocrResult,
                  imagePreview, isEditMode, fontSize, fontColor, ocrPending,
                  renderPending, nextId >>

clearEditsDropsFirst ==
  /\ Effects(NoAlert, NoDownload, NoRequest)
  /\ textEdits' = IF textEdits = << >> THEN << >> ELSE Tail(textEdits)
  /\ editLog' = IF editLog = << >> THEN << >> ELSE Tail(editLog)
  /\ UNCHANGED << selectedFile, extractedText, isLoading, ocrResult,
                  imagePreview, isEditMode, newText, fontSize, fontColor,
                  ocrPending, renderPending, nextId >>

clearEditsDropsLast ==
  /\ Effects(NoAlert, NoDownload, NoRequest)
  /\ textEdits' = SubSeq(textEdits, 1, Len(textEdits) - 1)
  /\ editLog' = SubSeq(editLog, 1, Len(editLog) - 1)
  /\ UNCHANGED << selectedFile, extractedText, isLoading, ocrResult,
                  imagePreview, isEditMode, newText, fontSize, fontColor,
                  ocrPending, renderPending, nextId >>

\* onClick of Clear Edits.  The button is rendered while ocrResult is set
\* and textEdits is non-empty; in every other state the call leaves the
\* state as it is, so the action is not restricted to those states.
clearEdits ==
  /\ Effects(NoAlert, NoDownload, NoRequest)
  /\ textEdits' = << >>
  /\ editLog' = << >>
  /\ UNCHANGED << selectedFile, extractedText, isLoading, ocrResult,
                  imagePreview, isEditMode, newText, fontSize, fontColor,
                  ocrPending, renderPending, nextId >>

\* The inputs of the editing panel, rendered while ocrResult is set.
setNewText(text) ==
  /\ ocrResult # Null
  /\ Effects(NoAlert, NoDownload, NoRequest)
  /\ newText' = text
  /\ UNCHANGED << selectedFile, extractedText, isLoading, ocrResult,
                  imagePreview, textEdits, isEditMode, fontSize, fontColor,
                  ocrPending, renderPending, nextId, editLog >>

\* The range input gives a value between its min and its max.
setFontSize(value) ==
  /\ ocrResult # Null
  /\ ParseInt(value) \in SliderMin..SliderMax
  /\ Effects(NoAlert, NoDownload, NoRequest)
  /\ fontSize' = ParseInt(value)
  /\ UNCHANGED << selectedFile, extractedText, isLoading, ocrResult,
                  imagePreview, textEdits, isEditMode, newText, fontColor,
                  ocrPending, renderPending, nextId, editLog >>

setFontColor(value) ==
  /\ ocrResult # Null
  /\ Effects(NoAlert, NoDownload, NoRequest)
  /\ fontColor' = value
  /\ UNCHANGED << selectedFile, extractedText, isLoading, ocrResult,
                  imagePreview, textEdits, isEditMode, newText, fontSize,
                  ocrPending, renderPending, nextId, editLog >>

toggleEditModeClearsText ==
  /\ ocrResult # Null
  /\ Effects(NoAlert, NoDownload, NoRequest)
  /\ isEditMode' = ~isEditMode
  /\ newText' = EmptyText
  /\ UNCHANGED << selectedFile, extractedText, isLoading, ocrResult,
                  imagePreview, textEdits, fontSize, fontColor,
                  ocrPending, renderPending, nextId, editLog >>

\* onClick of the Enter / Exit Edit Mode button.
toggleEditMode ==
  /\ ocrResult # Null
  /\ Effects(NoAlert, NoDownload, NoRequest)
  /\ isEditMode' = ~isEditMode
  /\ UNCHANGED << selectedFile, extractedText, isLoading, ocrResult,
                  imagePreview, textEdits, newText, fontSize, fontColor,
                  ocrPending, renderPending, nextId, editLog >>

(***************************************************************************)
(* Rendering: POST /edit-image.                                            *)
(***************************************************************************)
DownloadRefusedWithoutLength == ocrResult = Null

\* The early return of downloadEditedImage.
DownloadRefused == ocrResult = Null \/ Len(textEdits) = 0

\* editRequest
EditRequest(result, edits) == [file_id |-> result.id, edits |-> edits]

\* downloadEditedImage up to the await.  Its button is rendered exactly
\* when DownloadRefused is false; the function checks again, so the action
\* is not restricted to the states that show the button.
downloadEditedImage ==
  /\ IF DownloadRefused
       THEN /\ Effects("No edits to save", NoDownload,
                     NoRequest)
            /\ UNCHANGED renderPending
       ELSE /\ BagCardinality(renderPending) < MaxRenders
            /\ Effects(NoAlert, NoDownload,
                     EditRequest(ocrResult, textEdits))
            /\ renderPending' = Await(renderPending, [ocrResult |-> ocrResult])
  /\ UNCHANGED << react, ocrPending, nextId, editLog >>

renderFulfilledReadsLatestResult(call) ==
  /\ BagIn(call, renderPending)
  /\ Effects(NoAlert,
             IF ocrResult = Null THEN EditedName("undefined")
                                 ELSE EditedName(ocrResult.filename),
             NoRequest)
  /\ renderPending' = Settle(renderPending, call)
  /\ UNCHANGED << react, ocrPending, nextId, editLog >>

\* An awaited render resolves: the blob is saved under the name made from
\* the ocrResult of the render the handler was called in.
renderFulfilled(call) ==
  /\ BagIn(call, renderPending)
  /\ Effects(NoAlert, EditedName(call.ocrResult.filename),
           NoRequest)
  /\ renderPending' = Settle(renderPending, call)
  /\ UNCHANGED << react, ocrPending, nextId, editLog >>

renderRejectedClearsEdits(call) ==
  /\ BagIn(call, renderPending)
  /\ Effects("Failed to download edited image. Please try again.",
             NoDownload, NoRequest)
  /\ renderPending' = Settle(renderPending, call)
  /\ textEdits' = << >>
  /\ editLog' = << >>
  /\ UNCHANGED << selectedFile, extractedText, isLoading, ocrResult,
                  imagePreview, isEditMode, newText, fontSize, fontColor,
                  ocrPending, nextId >>

\* An awaited render rejects: catch.
renderRejected(call) ==
  /\ BagIn(call, renderPending)
  /\ Effects("Failed to download edited image. Please try again.",
           NoDownload, NoRequest)
  /\ renderPending' = Settle(renderPending, call)
  /\ UNCHANGED << react, ocrPending, nextId, editLog >>

(***************************************************************************)
(* The session.                                                            *)
(***************************************************************************)
Next ==
  \/ \E file \in PickableFiles \cup {Null} : handleFileSelect(file)
  \/ \E file \in DroppableFiles \cup {Null} : handleDrop(file)
  \/ handleUploadAndOCR
  \/ \E call \in BagToSet(ocrPending) : uploadOcrFulfilled(call)
  \/ \E call \in BagToSet(ocrPending) : uploadOcrRejected(call)
  \/ \E text \in TextAreaInputs : handleTextEdit(text)
  \/ \E event \in ClickEvents : handleImageClick(event)
  \/ clearEdits
  \/ \E text \in TextInputs : setNewText(text)
  \/ \E value \in SliderValues : setFontSize(value)
  \/ \E value \in FontColorInputs : setFontColor(value)
  \/ toggleEditMode
  \/ downloadEditedImage
  \/ \E call \in BagToSet(renderPending) : renderFulfilled(call)
  \/ \E call \in BagToSet(renderPending) : renderRejected(call)

Spec == Init /\ [][Next]_vars

\* The promise of an awaited /upload-ocr call settles: the server answers
\* or the connection fails.  The continuation of handleUploadAndOCR then
\* runs, as a microtask of the event loop.
ExtractionSettles ==
  \E call \in BagToSet(ocrPending) :
    uploadOcrFulfilled(call) \/ uploadOcrRejected(call)

LiveSpec == Init /\ [][Next]_vars /\ WF_vars(ExtractionSettles)

(***************************************************************************)
(* The coordinate mapping of handleImageClick on its own: a session with   *)
(* a result, in edit mode, where the user types a text and clicks.         *)
(***************************************************************************)
MapClickInit ==
  LET file == [name |-> "a.png", type |-> <<"image", "png">>]
  IN /\ selectedFile = file
     /\ extractedText = OcrResponse(file, 1).extracted_text
     /\ isLoading = FALSE
     /\ ocrResult = OcrResponse(file, 1)
     /\ imagePreview = ObjectURL(file)
     /\ textEdits = << >>
     /\ isEditMode = TRUE
     /\ newText = <<" ", "H", "i">>
     /\ fontSize = DefaultFontSize
     /\ fontColor = DefaultFontColor
     /\ ocrPending = EmptyBag
     /\ renderPending = EmptyBag
     /\ nextId = 2
     /\ editLog = << >>
     /\ alertShown = NoAlert
     /\ downloaded = NoDownload
     /\ posted = NoRequest

MapClickNext ==
  \/ \E event \in MapClickEvents : handleImageClick(event)
  \/ \E text \in TextInputs : setNewText(text)

MapClickSpec == MapClickInit /\ [][MapClickNext]_vars

(***************************************************************************)
(* Properties.                                                             *)
(***************************************************************************)
\* A text that is empty or all white space.
IsBlank(text) == \A i \in 1..Len(text) : text[i] \in WhiteSpace

\* v is an integer nearest to num / den.
IsNearest(v, num, den) ==
  /\ 2 * (v * den - num) <= den
  /\ 2 * (num - v * den) <= den

\* C1: when an extraction resolves for a file other than the one now
\* selected (the user picked a new file while it was outstanding), its
\* response is discarded: ocrResult and extractedText keep their values.
C1_StaleExtractionDiscarded ==
  [][\A call \in BagToSet(ocrPending) :
       (uploadOcrFulfilled(call) /\ call.file # selectedFile)
         => (ocrResult' = ocrResult /\ extractedText' = extractedText)]_vars

\* C2: whenever a resolved extraction stores its result as ocrResult,
\* textEdits is empty right afterwards.
C2_NewResultEmptiesEdits ==
  [][\A call \in BagToSet(ocrPending) :
       uploadOcrFulfilled(call) => textEdits' = << >>]_vars

\* C3: in every render request posted, each annotation of edits was created
\* while ocrResult was the extraction result whose id is posted as file_id.
C3_EditsMadeUnderPostedArtifact ==
  posted # NoRequest =>
    \A i \in 1..Len(posted.edits) :
      /\ editLog[i].result # Null
      /\ editLog[i].result.id = posted.file_id

\* C4: a click on the preview outside edit mode, or with a pending text
\* that is empty or all white space, changes none of textEdits, newText,
\* fontSize, fontColor, isEditMode, ocrResult.
C4_RefusedClickChangesNothing ==
  [][\A event \in ClickEvents :
       (handleImageClick(event) /\ (~isEditMode \/ IsBlank(newText)))
         => UNCHANGED << textEdits, newText, fontSize, fontColor, isEditMode,
                         ocrResult >>]_vars

\* A click is refused for a white-space text, in edit mode, with an
\* annotation in place that the click leaves as it is.
C4_Witness ==
  /\ imagePreview # Null
  /\ isEditMode
  /\ newText = <<" ">>
  /\ Len(textEdits) = 1

\* C5: a click on the preview in edit mode with a non-blank pending text
\* appends exactly one annotation at the end of textEdits, with the pending
\* text as typed, the click mapped to the nearest image pixel, and the
\* current fontSize and fontColor; afterwards newText is empty and fontSize
\* and fontColor are as before.
C5_ClickAppendsOneAnnotation ==
  [][\A event \in ClickEvents :
       (handleImageClick(event) /\ isEditMode /\ ~IsBlank(newText))
         => /\ Len(textEdits') = Len(textEdits) + 1
            /\ SubSeq(textEdits', 1, Len(textEdits)) = textEdits
            /\ LET added == textEdits'[Len(textEdits')]
               IN /\ added.text = newText
                  /\ IsNearest(added.x,
                               (event.clientX - event.left) * event.naturalWidth,
                               event.width)
                  /\ IsNearest(added.y,
                               (event.clientY - event.top) * event.naturalHeight,
                               event.height)
                  /\ added.font_size = fontSize
                  /\ added.font_color = fontColor
            /\ newText' = EmptyText
            /\ fontSize' = fontSize
            /\ fontColor' = fontColor]_vars

\* A second annotation has been appended behind a first one of another
\* font size and colour, and the pending text is empty again.
C5_Witness ==
  /\ Len(textEdits) = 2
  /\ textEdits[1].font_size = DefaultFontSize
  /\ textEdits[1].font_color = DefaultFontColor
  /\ textEdits[2] = [text |-> <<" ", "H", "i">>, x |-> 167, y |-> 200,
                     font_size |-> 72, font_color |-> "#ff0000"]
  /\ newText = EmptyText

\* C6: downloadEditedImage with ocrResult absent or textEdits empty posts no
\* render request and changes no state.
C6_RefusedDownloadPostsNothing ==
  [][(downloadEditedImage /\ (ocrResult = Null \/ textEdits = << >>))
       => /\ posted' = NoRequest
          /\ renderPending' = renderPending
          /\ UNCHANGED react]_vars

\* downloadEditedImage has been refused with a result present and no
\* annotation.
C6_Witness ==
  /\ alertShown = "No edits to save"
  /\ ocrResult # Null
  /\ textEdits = << >>

\* C7: the edits of every render request posted are the annotations in the
\* order they were added since textEdits was last emptied, the i-th added
\* being the i-th of edits, and file_id is the id of the current ocrResult.
C7_RequestKeepsInsertionOrder ==
  posted # NoRequest =>
    /\ posted.file_id = ocrResult.id
    /\ posted.edits = textEdits
    /\ Len(posted.edits) = Len(editLog)
    /\ \A i \in 1..Len(editLog) : posted.edits[i] = editLog[i].edit

\* A request with two different annotations has been posted.
C7_Witness ==
  /\ posted # NoRequest
  /\ Len(posted.edits) = 2
  /\ posted.edits[1] # posted.edits[2]

\* C8: clearEdits empties textEdits from any state; on a state with no
\* annotations it changes nothing (so twice is as once); textEdits then stays
\* empty until a click adds an annotation, and a downloadEditedImage while
\* it is empty is refused with "No edits to save" and posts nothing.
C8_ClearThenDownloadRefused ==
  [][/\ clearEdits => textEdits' = << >>
     /\ (clearEdits /\ textEdits = << >>) => UNCHANGED react
     /\ (textEdits = << >> /\ textEdits' # << >>)
          => \E event \in ClickEvents : handleImageClick(event)
     /\ (downloadEditedImage /\ textEdits = << >>)
          => /\ alertShown' = "No edits to save"
             /\ posted' = NoRequest
             /\ renderPending' = renderPending]_vars

\* A render was posted for the current result, so annotations existed under
\* it; they are gone while the result stayed, which only clearEdits does;
\* and the download that followed was refused.
C8_Witness ==
  /\ alertShown = "No edits to save"
  /\ textEdits = << >>
  /\ ocrResult # Null
  /\ BagIn([ocrResult |-> ocrResult], renderPending)

\* C9: when the render call fails, textEdits, ocrResult, isEditMode,
\* newText, fontSize and fontColor are as they were, so downloadEditedImage
\* builds the same request again.
C9_RenderFailureKeepsState ==
  [][\A call \in BagToSet(renderPending) :
       renderRejected(call)
         => UNCHANGED << textEdits, ocrResult, isEditMode, newText, fontSize,
                         fontColor >>]_vars

\* A render has failed and the annotations and the result are still there.
C9_Witness ==
  /\ alertShown = "Failed to download edited image. Please try again."
  /\ Len(textEdits) = 2
  /\ ocrResult # Null

\* C10: loading a new image (handleFileSelect with a file, handleDrop with
\* an image file) empties textEdits, leaves edit mode, clears newText, and
\* leaves fontSize and fontColor as they were.
C10_LoadResetsAnnotationStore ==
  [][\A file \in Files :
       (handleFileSelect(file) \/ (handleDrop(file) /\ IsImageType(file.type)))
         => /\ textEdits' = << >>
            /\ isEditMode' = FALSE
            /\ newText' = EmptyText
            /\ fontSize' = fontSize
            /\ fontColor' = fontColor]_vars

\* C11: in every reachable state, every annotation of textEdits has a text
\* that is non-empty after trimming and a font_size that is an integer of
\* 12..72.
C11_AnnotationsWellFormed ==
  \A i \in 1..Len(textEdits) :
    /\ Trim(textEdits[i].text) # EmptyText
    /\ textEdits[i].font_size \in Int
    /\ textEdits[i].font_size >= 12
    /\ textEdits[i].font_size <= 72

\* An annotation of the default font size is followed by one of the largest
\* size the slider gives, whose text has white space around nothing but its
\* front.
C11_Witness ==
  /\ Len(textEdits) = 2
  /\ textEdits[1].font_size = DefaultFontSize
  /\ textEdits[2].font_size = SliderMax
  /\ Head(textEdits[2].text) \in WhiteSpace

\* C12: for every displayed size > 0, every natural size and every click
\* inside the element (0 <= local <= displayed on both axes), the x and y
\* of the annotation handleImageClick creates are integers with
\* 0 <= x <= naturalWidth and 0 <= y <= naturalHeight; a click at (50, 50)
\* of a 300 x 400 element showing a 1200 x 1600 image gives (200, 200).
C12_MappedClickWithinImage ==
  [][\A event \in MapClickEvents :
       (/\ handleImageClick(event)
        /\ ~ClickRefused
        /\ event.width > 0 /\ event.height > 0
        /\ event.clientX - event.left \in 0..event.width
        /\ event.clientY - event.top \in 0..event.height)
         => LET added == textEdits'[Len(textEdits')]
            IN /\ added.x \in Int /\ added.y \in Int
               /\ 0 <= added.x /\ added.x <= event.naturalWidth
               /\ 0 <= added.y /\ added.y <= event.naturalHeight
               /\ event = ScenarioClick => (added.x = 200 /\ added.y = 200)]_vars

\* The click of the scenario has been mapped to (200, 200), and a click on
\* the bottom border of an element showing the tallest image to that
\* height.
C12_Witness ==
  /\ Len(textEdits) = 2
  /\ textEdits[1].x = 200 /\ textEdits[1].y = 200
  /\ textEdits[2].x = 200 /\ textEdits[2].y = MaxNatural

\* C13: the Enter / Exit Edit Mode button changes isEditMode only:
\* textEdits, newText, fontSize, fontColor and ocrResult are as before.
C13_ToggleChangesModeOnly ==
  [][toggleEditMode
       => /\ isEditMode' = ~isEditMode
          /\ UNCHANGED << textEdits, newText, fontSize, fontColor,
                          ocrResult >>]_vars

\* Edit mode has been left with an annotation in place, a pending text
\* typed and the font size and colour changed.
C13_Witness ==
  /\ ~isEditMode
  /\ Len(textEdits) = 1
  /\ newText = <<" ", "H", "i">>
  /\ fontSize = SliderMax
  /\ fontColor # DefaultFontColor

\* C14: at any time at most one extraction request and at most one render
\* request is outstanding.
C14_OneRequestOfEachKind ==
  /\ BagCardinality(ocrPending) <= 1
  /\ BagCardinality(renderPending) <= 1

\* C15: a render response that arrives when the annotations it was sent
\* for are gone (textEdits is empty again, which only clearEdits and the
\* loading of a new file bring about after a request was sent) is dropped:
\* nothing is downloaded.
C15_SupersededRenderDropped ==
  [][\A call \in BagToSet(renderPending) :
       (renderFulfilled(call) /\ textEdits = << >>)
         => downloaded' = NoDownload]_vars

\* C16: across every step textEdits stays the same, or becomes the previous
\* sequence with exactly one annotation appended at the end, or becomes
\* empty; no annotation is modified, reordered or removed on its own.
C16_AppendOnlyUntilCleared ==
  [][\/ textEdits' = textEdits
     \/ /\ Len(textEdits') = Len(textEdits) + 1
        /\ SubSeq(textEdits', 1, Len(textEdits)) = textEdits
     \/ textEdits' = << >>]_vars

\* Two annotations of different colours are in textEdits, each as it was
\* created and in the order of creation, after other steps were taken (a
\* render of them is awaited and the pending text was typed again).
C16_Witness ==
  /\ Len(textEdits) = 2
  /\ Len(editLog) = 2
  /\ \A i \in 1..2 : textEdits[i] = editLog[i].edit
  /\ textEdits[1].font_color # textEdits[2].font_color
  /\ renderPending # EmptyBag
  /\ newText # EmptyText

\* C18: in every reachable state, if textEdits is non-empty or isEditMode is
\* true then ocrResult is set.
C18_EditingNeedsResult ==
  (textEdits # << >> \/ isEditMode) => ocrResult # Null

\* Edit mode is on and an annotation exists under the second extraction
\* result of the session, while another extraction is awaited.
C18_Witness ==
  /\ isEditMode
  /\ textEdits # << >>
  /\ ocrResult # Null
  /\ ocrResult.id = 2
  /\ isLoading

\* C19: the render request a downloadEditedImage posts carries as file_id
\* the id of the extraction result the awaited call keeps, and when the
\* response is applied the download is named edited_<filename> with the
\* filename of that same result, whatever ocrResult has become meanwhile.
C19_DownloadNamedAfterRequestedResult ==
  [][/\ (downloadEditedImage /\ posted' # NoRequest)
          => \E call \in BagToSet(renderPending') :
               /\ CopiesIn(call, renderPending')
                    = CopiesIn(call, renderPending) + 1
               /\ call.ocrResult.id = posted'.file_id
     /\ \A call \in BagToSet(renderPending) :
          renderFulfilled(call)
            => downloaded' = EditedName(call.ocrResult.filename)]_vars

\* The render asked for under the result of a.png has been saved as
\* edited_a.png after ocrResult was replaced by the result of b.png.
C19_Witness ==
  /\ downloaded = EditedName("a.png")
  /\ ocrResult # Null
  /\ ocrResult.filename = "b.png"

\* C17: every extraction request eventually completes with isLoading back
\* to false, whether it succeeds or fails; a failure leaves ocrResult,
\* extractedText and textEdits as they were, and a new extraction can be
\* started after it (no extraction is awaited, the button is enabled and a
\* file is selected).
C17_ExtractionCompletes ==
  /\ [][\A call \in BagToSet(ocrPending) :
          /\ uploadOcrFulfilled(call) => isLoading' = FALSE
          /\ uploadOcrRejected(call)
               => /\ isLoading' = FALSE
                  /\ UNCHANGED << ocrResult, extractedText, textEdits >>
                  /\ ocrPending' = EmptyBag
                  /\ selectedFile' # Null]_vars
  /\ (ocrPending # EmptyBag) ~> (ocrPending = EmptyBag /\ ~isLoading)

\* A second extraction has failed: the result, the text and the annotation
\* of the first are still there and the button is enabled again.
C17_Witness ==
  /\ alertShown = "Failed to extract text from image. Please try again."
  /\ ~isLoading
  /\ ocrResult # Null
  /\ extractedText = ocrResult.extracted_text
  /\ Len(textEdits) = 1

====
